---- MODULE Spec2Model ----
(***************************************************************************)
(* A model of aten/src/ATen/core/ivalue_inl.h:                             *)
(*   - ivalue::Future (wait, markCompleted, value, addCallback,            *)
(*     fireCallbacks) run by several threads, statement by statement       *)
(*     wherever another thread can observe the difference;                 *)
(*   - the IValue extraction accessors over reference-counted targets.     *)
(***************************************************************************)
EXTENDS Naturals, Sequences, FiniteSets

(* ------------------------------ bounds -------------------------------- *)

\* Number of API calls the client threads make on the Future in one run
\* (calls made from inside callback bodies are not counted).
MaxCalls == 3

\* Number of reference-counted targets that are ever allocated.
NumTargets == 1

\* Largest reference count a target is driven to.
MaxRefs == 2

\* Largest numSlots a record is constructed with, and the number of setSlot
\* calls made on it.
MaxSlots == 1
MaxSets == 2

\* Largest length of the lists, dicts and vectors that are built.
MaxLen == 2

\* Number of addresses of the targets of the IValues that isSameIdentity
\* is given.
NumAddrs == 2

\* The client threads.
Threads == {"A", "B"}
NoThread == "-"

\* IValue payloads a Future can be completed with, and error messages.
Values == {"v1"}
Errors == {"e1"}
\* IValue(): the default-constructed value_ of a pending Future.
NoneValue == "None"
\* FutureError(): the default-constructed error (empty message).
NoError == ""

\* Bodies of the callbacks the clients register: one that only runs, and one
\* that calls back into the same Future: addCallback (of a callback that only
\* runs), then wait, then value (catching the FutureError it may throw).
UserKinds == {"plain", "reenter"}

VARIABLES
  completed_,   \* Future::completed_
  value_,       \* Future::value_
  has_error,    \* Future::has_error
  error,        \* Future::error (its message)
  callbacks,    \* Future::callbacks
  mutex_,       \* Future::mutex_: the thread that holds it, or NoThread
  stack,        \* per thread: its call stack of frames, innermost last
  fired,        \* per thread: the local `fired` of its blocking wait()
  cv,           \* per thread: the local `finished` of its blocking wait():
                \*   "idle" | "waiting" | "notified"
  calls,        \* history: API calls started by the clients
  nextId,       \* history: next fresh callback identity
  began,        \* history: callbacks in the order their bodies began,
                \*   each with the thread that ran it
  ended,        \* history: identities of callbacks whose body has returned
  enqueued,     \* history: identities pushed on `callbacks`, in push order
  snap,         \* history: the first completion -- the thread, the argument
                \*   of its markCompleted call, and the Future's result when
                \*   its critical section ended
  wins,         \* history: markCompleted calls that passed the assertion
  last,         \* per thread: the outcome of its last returned API call
  iv,           \* per IValue variable: its tag, its payload (ptr: the bits
                \*   of the union, read as as_intrusive_ptr, as_int, as_double
                \*   or as_bool) and is_intrusive_ptr
  refcount_,    \* per target: intrusive_ptr_target::refcount_ (0: not alive)
  ttag,         \* per target: the kind of object it is (the tag of an
                \*   IValue that holds it)
  held,         \* per target: the live intrusive_ptr handles outside IValues
  xlast,        \* history: the last extraction -- the accessor, the IValue
                \*   before and after, the handle returned, the counts
  same,         \* history: the last isSameIdentity call and its result
  slots_,       \* Object::slots_ of the one record
  ohist,        \* history of the record: whether it is constructed, its
                \*   numSlots, the setSlot calls made, the value last
                \*   written to each slot index
  olast,        \* history: the last setSlot/getSlot call, slots_ before it
                \*   and its outcome
  lsrc,         \* the IValue that holds a generic list or dict
  lstore,       \* per container address: the contents of the backing store
                \*   (ListImpl<IValue>::list, DictImpl::dict) -- IValues
  lrc,          \* per container address: its reference count
  views,        \* per typed view (ListPtr<T>, DictPtr<K, V>): the address
                \*   of the backing store it is a handle to, or NullPtr
  vecs,         \* per result variable: the std::vector<Elem> it holds
  llast         \* history: the last container operation, and the source's
                \*   backing store before it

futureVars == <<completed_, value_, has_error, error, callbacks, mutex_>>
threadVars == <<stack, fired, cv, calls, nextId, began, ended, enqueued, snap,
                wins, last>>
ivVars == <<iv, refcount_, ttag, held, xlast>>
\* What the Future's functions leave alone, and what the IValue's do.
objVars == <<slots_, ohist, olast>>
listVars == <<lsrc, lstore, lrc, views, vecs, llast>>
dataVars == <<iv, refcount_, ttag, held, xlast, same, objVars, listVars>>
notIvVars == <<futureVars, threadVars, same, objVars, listVars>>
notObjVars == <<ivVars, same, futureVars, threadVars, listVars>>
notListVars == <<ivVars, same, futureVars, threadVars, objVars>>
vars == <<completed_, value_, has_error, error, callbacks, mutex_, stack,
          fired, cv, calls, nextId, began, ended, enqueued, snap, wins, last,
          iv, refcount_, ttag, held, xlast, same, slots_, ohist, olast,
          lsrc, lstore, lrc, views, vecs, llast>>

\* The tags whose payload is an owning pointer, the inline tags, and the
\* IValue variables of the client.
PtrTags ==
  {"Future", "String", "Object", "Tensor", "Blob", "IntList", "DoubleList",
   "BoolList", "TensorList", "GenericList", "GenericDict", "Tuple"}
InlineTags == {"None", "Int", "Double", "Bool"}
\* The tags that have a ...Ref accessor.
RefTags ==
  {"IntList", "DoubleList", "TensorList", "GenericList", "Tuple", "String"}
Slots == {"x", "y"}
Targets == 1 .. NumTargets
NullPtr == 0
\* The address of UndefinedTensorImpl::singleton(), the target of no count.
UndefinedPtr == NumTargets + NumAddrs + 1
\* The addresses of the targets of isSameIdentity's arguments.
Addrs == 1 .. NumAddrs
\* The payload bits of the integers, doubles and booleans that are built
\* (false and true are 0 and 1).
Payloads == {0, 1}
ScalarTags == {"Int", "Double", "Bool"}

(* ------------------------------ frames -------------------------------- *)

NoCb == [id |-> 0, kind |-> "none", owner |-> NoThread]

\* A stack frame: the function, its position, and its arguments and locals.
\* sc, reg and blk are history fields: whether the Future was completed when
\* the call started, whether the call registered a callback, whether it
\* blocked on the condition variable.
Frame(op, pc, cb, kind, x) ==
  [op |-> op, pc |-> pc, cb |-> cb, i |-> 1, kind |-> kind, x |-> x,
   sc |-> completed_, reg |-> FALSE, blk |-> FALSE]

NoLast ==
  [op |-> "none", out |-> "none", val |-> "", id |-> 0,
   sc |-> FALSE, reg |-> FALSE, blk |-> FALSE, depth |-> 0]

NoSnap ==
  [set |-> FALSE, by |-> NoThread, kind |-> "-", arg |-> "",
   has_error |-> FALSE, value |-> NoneValue, error |-> NoError]

Depth(t) == Len(stack[t])
Top(t) == stack[t][Depth(t)]
Idle(t) == stack[t] = <<>>
At(t, op, pc) == ~Idle(t) /\ Top(t).op = op /\ Top(t).pc = pc

SetTop(t, f) == [stack EXCEPT ![t] = [@ EXCEPT ![Len(@)] = f]]
\* Call: the caller's frame moves to its continuation, the callee is pushed.
Call(t, callerNext, f) ==
  [stack EXCEPT ![t] = Append([@ EXCEPT ![Len(@)] = callerNext], f)]
Pop(t) == [stack EXCEPT ![t] = SubSeq(@, 1, Len(@) - 1)]

Outcome(t, out, val) ==
  [op |-> Top(t).op, out |-> out, val |-> val, id |-> Top(t).cb.id,
   sc |-> Top(t).sc, reg |-> Top(t).reg, blk |-> Top(t).blk,
   depth |-> Depth(t)]

(* ------------------------------ IValue -------------------------------- *)

\* IValue(): tag None, no pointer.  Also what clearToNone() leaves behind.
NoneIValue == [tag |-> "None", ptr |-> NullPtr, is_intrusive_ptr |-> FALSE]

NoExtraction ==
  [op |-> "none", acc |-> "None", slot |-> "x", ok |-> FALSE,
   src |-> NoneIValue, after |-> NoneIValue, got |-> NullPtr,
   before |-> 0, count |-> 0]

\* The result of an accessor body: the pointer of the handle returned, the
\* IValue afterwards, and the change of the target's reference count.

\* A move that forgets clearToNone(): the source keeps the pointer it gave up.
moveToIntrusivePtr_NoClear(v) ==
  [got |-> v.ptr, after |-> v, delta |-> 0]

\* IValue::moveToIntrusivePtr: reclaim the payload pointer (no increment),
\* clearToNone(), return the handle.
moveToIntrusivePtr(v) ==
  [got |-> v.ptr, after |-> NoneIValue, delta |-> 0]

\* A borrow that hands out the IValue's own reference: no increment.
toIntrusivePtr_NoIncrement(v) ==
  [got |-> v.ptr, after |-> v, delta |-> 0]

\* IValue::toIntrusivePtr: reclaim the payload pointer, copy the handle (one
\* increment), release the reclaimed one (no decrement), return the copy.
toIntrusivePtr(v) ==
  [got |-> v.ptr, after |-> v, delta |-> 1]

\* The rvalue accessors toFuture() &&, toString() &&, toObject() &&,
\* toTensor() &&, toBlob() &&, toIntList() && ... toTuple() &&: every one
\* returns moveToIntrusivePtr(), except toObject() &&, which returns
\* toIntrusivePtr().
MoveAccessor(acc, v) ==
  IF acc = "Object" THEN toIntrusivePtr(v) ELSE moveToIntrusivePtr(v)

\* The const& accessors: every one returns toIntrusivePtr().
BorrowAccessor(acc, v) == toIntrusivePtr(v)

\* An assertion that only checks that the value owns some pointer.
TagMatches_AnyPointer(acc, v) == v.is_intrusive_ptr

\* AT_ASSERT(isFuture()) etc.: the tag is the accessor's.
TagMatches(acc, v) == v.tag = acc

\* A constructor that leaves is_intrusive_ptr unset.
IValueOf_NoFlag(tag, p) == [tag |-> tag, ptr |-> p, is_intrusive_ptr |-> FALSE]

\* IValue(c10::intrusive_ptr<...> v) and the list, dict and tuple
\* constructors: the tag of the kind, is_intrusive_ptr set, and the handle
\* released into the payload.
IValueOf(tag, p) == [tag |-> tag, ptr |-> p, is_intrusive_ptr |-> TRUE]

\* IValue(int64_t), IValue(double), IValue(bool): the tag, the payload bits,
\* no owned pointer.
ScalarIValue(tag, n) == [tag |-> tag, ptr |-> n, is_intrusive_ptr |-> FALSE]

\* IValue(at::Tensor()) of an undefined tensor: the Tensor tag, the address
\* of the undefined-tensor singleton, is_intrusive_ptr(t.defined()) = false.
UndefinedTensor ==
  [tag |-> "Tensor", ptr |-> UndefinedPtr, is_intrusive_ptr |-> FALSE]

\* The IValue variables are interchangeable: a new IValue is built in "x"
\* unless "x" is in use.
FirstFree(s) == s = "y" => iv["x"].tag # "None"

\* make_intrusive + IValue(handle): a fresh target, its one reference owned
\* by the IValue.
IvConstruct(s) ==
  \E tag \in PtrTags, p \in Targets :
    /\ iv[s].tag = "None"
    /\ FirstFree(s)
    /\ refcount_[p] = 0 /\ ttag[p] = "None"
    /\ \A q \in Targets : q < p => ttag[q] # "None"
    /\ iv' = [iv EXCEPT ![s] = IValueOf(tag, p)]
    /\ refcount_' = [refcount_ EXCEPT ![p] = 1]
    /\ ttag' = [ttag EXCEPT ![p] = tag]
    /\ xlast' = NoExtraction
    /\ UNCHANGED <<held, notIvVars>>

\* IValue(1), IValue(1.0), IValue(true).
IvConstructScalar(s) ==
  \E tag \in ScalarTags :
    /\ iv[s].tag = "None"
    /\ FirstFree(s)
    /\ iv' = [iv EXCEPT ![s] = ScalarIValue(tag, 1)]
    /\ xlast' = NoExtraction
    /\ UNCHANGED <<refcount_, ttag, held, notIvVars>>

\* An IValue of an undefined tensor.
IvConstructUndefined(s) ==
  /\ iv[s].tag = "None"
  /\ FirstFree(s)
  /\ iv' = [iv EXCEPT ![s] = UndefinedTensor]
  /\ xlast' = NoExtraction
  /\ UNCHANGED <<refcount_, ttag, held, notIvVars>>

\* IValue(c10::intrusive_ptr<...> v) given a live handle: v.release() moves
\* the handle's reference into the payload.
IvFromHandle(s) ==
  \E p \in Targets :
    /\ iv[s].tag = "None"
    /\ FirstFree(s)
    /\ held[p] > 0
    /\ iv' = [iv EXCEPT ![s] = IValueOf(ttag[p], p)]
    /\ held' = [held EXCEPT ![p] = @ - 1]
    /\ xlast' = NoExtraction
    /\ UNCHANGED <<refcount_, ttag, notIvVars>>

\* Future::intrusive_from_this() on a live Future: incref(this), then a
\* handle reclaimed from `this`.
intrusive_from_this ==
  \E p \in Targets :
    /\ ttag[p] = "Future" /\ refcount_[p] > 0
    /\ refcount_[p] < MaxRefs
    /\ refcount_' = [refcount_ EXCEPT ![p] = @ + 1]
    /\ held' = [held EXCEPT ![p] = @ + 1]
    /\ xlast' = NoExtraction
    /\ UNCHANGED <<iv, ttag, notIvVars>>

\* The reference count behind a handle, and a change of it; a handle to
\* the undefined-tensor singleton counts nothing (intrusive_ptr leaves its
\* NullType singleton uncounted).
CountOf(p) == IF p \in Targets THEN refcount_[p] ELSE 0
Counted(f, p, d) == IF p \in Targets THEN [f EXCEPT ![p] = @ + d] ELSE f

\* An accessor call on IValue s: a mismatching tag fails the assertion and
\* nothing happens; otherwise the body runs (r is its result).  The history
\* names the accessor of a call that passed its assertion only.
Extract(s, op, acc, r) ==
  IF TagMatches(acc, iv[s])
    THEN /\ CountOf(r.got) + r.delta <= MaxRefs
         /\ iv' = [iv EXCEPT ![s] = r.after]
         /\ refcount_' = Counted(refcount_, r.got, r.delta)
         /\ held' = Counted(held, r.got, 1)
         /\ xlast' = [op |-> op, acc |-> acc, slot |-> s, ok |-> TRUE,
                      src |-> iv[s], after |-> r.after, got |-> r.got,
                      before |-> CountOf(r.got),
                      count |-> IF r.got \in Targets
                                  THEN refcount_'[r.got] ELSE 0]
         /\ UNCHANGED ttag
    ELSE /\ xlast' = [NoExtraction EXCEPT !.op = op, !.acc = "-", !.slot = s,
                                          !.src = iv[s], !.after = iv[s]]
         /\ UNCHANGED <<iv, refcount_, ttag, held>>

\* The accessors among `accs` that are tried on IValue v: every one whose
\* assertion passes, and one whose assertion fails (all failing calls do the
\* same: nothing).
Tried(accs, v) ==
  LET pass == {a \in accs : TagMatches(a, v)}
      fail == accs \ pass
  IN  pass \cup (IF fail = {} THEN {} ELSE {CHOOSE a \in fail : TRUE})

\* std::move(v).toX()
IvMoveTo(s) ==
  \E acc \in Tried(PtrTags, iv[s]) :
    /\ Extract(s, "move", acc, MoveAccessor(acc, iv[s]))
    /\ UNCHANGED <<notIvVars>>

\* v.toX() on a const IValue&
IvBorrowTo(s) ==
  \E acc \in Tried(PtrTags, iv[s]) :
    /\ Extract(s, "borrow", acc, BorrowAccessor(acc, iv[s]))
    /\ UNCHANGED <<notIvVars>>

\* v.toIntListRef(), toDoubleListRef(), toTensorListRef(),
\* toGenericListRef(), toTupleRef(), toStringRef(): the assertion, then a
\* view into the target; no handle outlives the call.
IvRefTo(s) ==
  \E acc \in Tried(RefTags, iv[s]) :
    /\ xlast' = [NoExtraction EXCEPT
                   !.op = "ref", !.slot = s,
                   !.acc = IF TagMatches(acc, iv[s]) THEN acc ELSE "-",
                   !.ok = TagMatches(acc, iv[s]),
                   !.src = iv[s], !.after = iv[s]]
    /\ UNCHANGED <<iv, refcount_, ttag, held, notIvVars>>

\* ~intrusive_ptr(): one reference less; the target is freed at zero.
HandleDrop ==
  \E p \in Targets :
    /\ held[p] > 0
    /\ held' = [held EXCEPT ![p] = @ - 1]
    /\ refcount_' = [refcount_ EXCEPT ![p] = @ - 1]
    /\ xlast' = NoExtraction
    /\ UNCHANGED <<iv, ttag, notIvVars>>

\* ~IValue(): an owned pointer gives up its reference.
IvDestroy(s) ==
  /\ iv[s].tag # "None"
  /\ iv' = [iv EXCEPT ![s] = NoneIValue]
  /\ refcount_' = IF iv[s].is_intrusive_ptr
                     THEN [refcount_ EXCEPT ![iv[s].ptr] = @ - 1]
                     ELSE refcount_
  /\ xlast' = NoExtraction
  /\ UNCHANGED <<ttag, held, notIvVars>>

NextIV ==
  \/ \E s \in Slots :
       \/ IvConstruct(s) \/ IvFromHandle(s)
       \/ IvConstructScalar(s) \/ IvConstructUndefined(s)
       \/ IvMoveTo(s) \/ IvBorrowTo(s) \/ IvRefTo(s) \/ IvDestroy(s)
  \/ intrusive_from_this
  \/ HandleDrop

(* --------------------------- isSameIdentity --------------------------- *)

NoSame == [called |-> FALSE, lhs |-> "x", rhs |-> "x", result |-> FALSE]

\* An identity test that compares the payloads of any other pair without
\* asking whether they are pointers.
isSameIdentity_NoOwnerCheck(a, b) ==
  IF a.tag = "None" /\ b.tag = "None" THEN TRUE
  ELSE IF a.tag = "Bool" /\ b.tag = "Bool" THEN a.ptr = b.ptr
  ELSE IF a.tag = "Tensor" /\ b.tag = "Tensor" THEN a.ptr = b.ptr
  ELSE IF a.tag = "Tensor" /\ b.tag = "None" THEN ~a.is_intrusive_ptr
  ELSE IF a.tag = "None" /\ b.tag = "Tensor" THEN ~b.is_intrusive_ptr
  ELSE a.ptr = b.ptr

\* IValue::isSameIdentity, branch by branch (a is *this, b is rhs).
isSameIdentity(a, b) ==
  IF a.tag = "None" /\ b.tag = "None" THEN TRUE
  ELSE IF a.tag = "Bool" /\ b.tag = "Bool" THEN a.ptr = b.ptr
  ELSE IF a.tag = "Tensor" /\ b.tag = "Tensor" THEN a.ptr = b.ptr
  ELSE IF a.tag = "Tensor" /\ b.tag = "None" THEN ~a.is_intrusive_ptr
  ELSE IF a.tag = "None" /\ b.tag = "Tensor" THEN ~b.is_intrusive_ptr
  ELSE /\ a.is_intrusive_ptr /\ b.is_intrusive_ptr
       /\ a.ptr = b.ptr

\* The IValues isSameIdentity is tried on: None, integers, doubles and
\* booleans, the undefined tensor, and owners of a target of every kind.
SameValues ==
  {NoneIValue, UndefinedTensor}
    \cup {ScalarIValue(tag, n) : tag \in ScalarTags, n \in Payloads}
    \cup {IValueOf(tag, p) : tag \in PtrTags, p \in Addrs}

\* a.isSameIdentity(b)
IsSameIdentity(a, b) ==
  /\ same' = [called |-> TRUE, lhs |-> a, rhs |-> b,
              result |-> isSameIdentity(iv[a], iv[b])]
  /\ UNCHANGED <<ivVars, futureVars, threadVars, objVars, listVars>>

NextSame == \E a, b \in Slots : IsSameIdentity(a, b)

(* ------------------------------ Object -------------------------------- *)

\* The values given to setSlot: None and an integer.
SlotValues == {NoneIValue, ScalarIValue("Int", 1)}

NoObject == [created |-> FALSE, numSlots |-> 0, sets |-> 0, written |-> <<>>]
NoSlotCall ==
  [op |-> "none", slot |-> 0, v |-> NoneIValue, out |-> "none",
   val |-> NoneIValue, before |-> <<>>]

\* std::vector<IValue>::resize(n): the first n elements, then IValue()s.
Resize(slots, n) ==
  [i \in 1 .. n |-> IF i <= Len(slots) THEN slots[i] ELSE NoneIValue]

\* Object::resizeObject(slot): the vector is extended with None-valued
\* slots so that `slot` is an index of it.
resizeObject(slots, slot) == Resize(slots, slot + 1)

\* A setSlot that resizes whether or not the slot exists.
setSlot_ResizeAlways(slots, slot, v) ==
  [resizeObject(slots, slot) EXCEPT ![slot + 1] = v]

\* A setSlot that grows the vector and forgets the assignment.
setSlot_NoStore(slots, slot, v) ==
  IF slot >= Len(slots) THEN resizeObject(slots, slot) ELSE slots

\* Object::setSlot: slots_ afterwards (indices count from 0 in the code,
\* from 1 in a sequence).
setSlot(slots, slot, v) ==
  LET grown == IF slot >= Len(slots) THEN resizeObject(slots, slot)
               ELSE slots
  IN  [grown EXCEPT ![slot + 1] = v]

\* Object::getSlot: slots_.at(slot) -- the element, or std::out_of_range.
getSlot(slots, slot) ==
  IF slot < Len(slots)
    THEN [out |-> "ok", val |-> slots[slot + 1]]
    ELSE [out |-> "out_of_range", val |-> NoneIValue]

\* Object(type, numSlots): slots_.resize(numSlots).
ObjCreate ==
  \E n \in 0 .. MaxSlots :
    /\ ~ohist.created
    /\ slots_' = Resize(<<>>, n)
    /\ ohist' = [NoObject EXCEPT !.created = TRUE, !.numSlots = n]
    /\ olast' = NoSlotCall
    /\ UNCHANGED notObjVars

\* obj->setSlot(slot, v), for the slots of the record and up to five past
\* its constructed size.
CallSetSlot ==
  \E slot \in 0 .. MaxSlots + 5, v \in SlotValues :
    /\ ohist.created /\ ohist.sets < MaxSets
    /\ slot <= ohist.numSlots + 5
    /\ slots_' = setSlot(slots_, slot, v)
    /\ ohist' = [ohist EXCEPT
                   !.sets = @ + 1,
                   !.written = [i \in DOMAIN @ \cup {slot} |->
                                  IF i = slot THEN v ELSE @[i]]]
    /\ olast' = [op |-> "setSlot", slot |-> slot, v |-> v, out |-> "ok",
                 val |-> NoneIValue, before |-> slots_]
    /\ UNCHANGED notObjVars

\* obj->getSlot(slot)
CallGetSlot ==
  \E slot \in 0 .. MaxSlots + 6 :
    /\ ohist.created
    /\ olast' = [op |-> "getSlot", slot |-> slot, v |-> NoneIValue,
                 out |-> getSlot(slots_, slot).out,
                 val |-> getSlot(slots_, slot).val, before |-> slots_]
    /\ UNCHANGED <<slots_, ohist, notObjVars>>

NextObj == ObjCreate \/ CallSetSlot \/ CallGetSlot

(* ------------------------- lists and dicts ---------------------------- *)

\* The typed views and the result vectors of the client, and the strings
\* that are the elements, keys and values.
Views == {"p", "q"}
Vecs == {"r1", "r2"}
ElemValues == {"a", "b"}

NoVector == [made |-> FALSE, elems |-> <<>>]
NoListOp ==
  [op |-> "none", view |-> "p", vec |-> "r1", arg |-> <<>>, idx |-> 0,
   before |-> <<>>, out |-> {}]

SeqsUpTo(S, n) == UNION {[1 .. m -> S] : m \in 0 .. n}

\* IValue(std::string v): the element as the backing store holds it.
ElemIValue(x) == [tag |-> "String", str |-> x]
\* IValue::toStringRef, the to<std::string>() of an element.
toStringRef(e) == e.str

\* ListPtr<T>::push_back and set, DictPtr<K, V>::insert: the element is
\* wrapped in an IValue and stored in the backing store of the handle.
PushBack(list, x) == Append(list, ElemIValue(x))
SetAt(list, i, x) == [list EXCEPT ![i] = ElemIValue(x)]
DictEntry(k, x) == [key |-> ElemIValue(k), value |-> ElemIValue(x)]
DictInsert(dict, k, x) ==
  IF \E i \in 1 .. Len(dict) : dict[i].key = ElemIValue(k)
    THEN dict
    ELSE Append(dict, DictEntry(k, x))

\* The maps a dict is built from: entries with distinct keys.
MapInputs ==
  {m \in SeqsUpTo(ElemValues \X ElemValues, MaxLen) :
     \A i, j \in 1 .. Len(m) : m[i][1] = m[j][1] => i = j}

\* A typed view that is a list of its own, at another address.
generic_to_ListPtr_Copy(ivalue) == ivalue.ptr + 1

\* generic_to(IValue ivalue, _fake_type<ListPtr<Elem>>):
\* toTypedList(std::move(ivalue).toGenericList()) -- the address the handle
\* returned points to.
generic_to_ListPtr(ivalue) == moveToIntrusivePtr(ivalue).got

\* generic_to(IValue ivalue, _fake_type<DictPtr<Key, Value>>)
generic_to_DictPtr(ivalue) == moveToIntrusivePtr(ivalue).got

\* for (Elem v : list) result.push_back(std::move(v)), from element i on.
RECURSIVE CopyOut(_, _, _)
CopyOut(list, i, result) ==
  IF i > Len(list) THEN result
  ELSE CopyOut(list, i + 1, Append(result, toStringRef(list[i])))

\* A conversion that moves the elements out of the backing store.
generic_to_vector_MovesOut(ivalue, store) ==
  LET list == generic_to_ListPtr(ivalue)
  IN  [result |-> CopyOut(store[list], 1, <<>>),
       list |-> [i \in 1 .. Len(store[list]) |-> NoneIValue]]

\* generic_to(IValue ivalue, _fake_type<std::vector<Elem>>): the vector
\* returned, and the backing store as the loop leaves it.
generic_to_vector(ivalue, store) ==
  LET list == generic_to_ListPtr(ivalue)
  IN  [result |-> CopyOut(store[list], 1, <<>>), list |-> store[list]]

\* for (auto item : dict) specialized_dict[item.key().to<K>()] =
\* item.value().to<V>(), from entry i on: the map as its set of entries.
RECURSIVE MapOut(_, _, _)
MapOut(dict, i, result) ==
  IF i > Len(dict) THEN result
  ELSE MapOut(dict, i + 1,
              {e \in result : e[1] # toStringRef(dict[i].key)}
                \cup {<<toStringRef(dict[i].key), toStringRef(dict[i].value)>>})

\* generic_to(IValue ivalue, _fake_type<std::unordered_map<K, V>>): the map
\* returned; the dict handle is std::move(ivalue).toGenericDict().
generic_to_unordered_map(ivalue, store) ==
  MapOut(store[moveToIntrusivePtr(ivalue).got], 1, {})

\* for (auto& e : v) list.push_back(std::move(e)), from element i on.
RECURSIVE PushAll(_, _, _)
PushAll(list, v, i) ==
  IF i > Len(v) THEN list ELSE PushAll(PushBack(list, v[i]), v, i + 1)

\* for (auto& e : v) dict.insert(e.first, e.second), from entry i on.
RECURSIVE InsertAll(_, _, _)
InsertAll(dict, m, i) ==
  IF i > Len(m) THEN dict
  ELSE InsertAll(DictInsert(dict, m[i][1], m[i][2]), m, i + 1)

\* make_generic_list() / make_generic_dict(): the first free address.
FreshAddr == CHOOSE p \in Targets : lrc[p] = 0 /\ \A q \in Targets : q >= p
\* The source's backing store, as toGenericListRef() reads it.
SrcStore == IF lsrc.ptr \in Targets THEN lstore[lsrc.ptr] ELSE <<>>
ListOp(op, k, r, arg, i) ==
  [op |-> op, view |-> k, vec |-> r, arg |-> arg, idx |-> i,
   before |-> SrcStore, out |-> {}]
\* The same for a conversion to a map, with the map returned.
MapOp(op, result) == [ListOp(op, "p", "r1", <<>>, 0) EXCEPT !.out = result]
\* The backing stores after `new` is stored at address p.
Stored(p, new) == IF p \in Targets THEN [lstore EXCEPT ![p] = new] ELSE lstore
\* The same for a view operation, which reads the store through the view.
ViewOp(op, k, arg, i) ==
  [ListOp(op, k, "r1", arg, i) EXCEPT !.before = lstore[views[k]]]

\* IValue(IValue&& rhs), which makes the by-value parameter of generic_to
\* from std::move(*this): the parameter owns what rhs owned and rhs is left
\* None, no count changing.
IValueMove(rhs) == [to |-> rhs, from |-> NoneIValue]

\* ~intrusive_ptr() of a handle to the container at p: the count after it,
\* and the backing stores, the container being freed with its last owner.
Released(p) ==
  [lrc |-> [lrc EXCEPT ![p] = @ - 1],
   lstore |-> IF lrc[p] = 1 THEN [lstore EXCEPT ![p] = <<>>] ELSE lstore,
   ttag |-> IF lrc[p] = 1 THEN [ttag EXCEPT ![p] = "None"] ELSE ttag]

\* What the container operations leave alone of the other parts.
notListButTag == <<iv, refcount_, held, xlast, same, futureVars, threadVars,
                   objVars>>

\* IValue(std::vector<T> v): an IValue of a new empty generic list, a typed
\* view of *this (to<ListPtr<T>>() const&, a temporary), and the elements
\* pushed through the view.  The client holds one container at a time: it
\* builds the next one when the last owner of the previous one is gone.
ListFromVector ==
  \E v \in SeqsUpTo(ElemValues, MaxLen) :
    LET made == IValueOf("GenericList", FreshAddr)
        list == generic_to_ListPtr(made)
    IN  /\ lsrc = NoneIValue /\ \A p \in Targets : lrc[p] = 0
        /\ lsrc' = made
        /\ lrc' = [lrc EXCEPT ![FreshAddr] = 1]
        /\ ttag' = [ttag EXCEPT ![FreshAddr] = made.tag]
        /\ lstore' = Stored(list, PushAll(<<>>, v, 1))
        /\ llast' = ListOp("fromVector", "p", "r1", v, 0)
        /\ UNCHANGED <<views, vecs, notListButTag>>

\* IValue(std::unordered_map<Key, Value> v), likewise.
DictFromMap ==
  \E m \in MapInputs :
    LET made == IValueOf("GenericDict", FreshAddr)
        dict == generic_to_DictPtr(made)
    IN  /\ lsrc = NoneIValue /\ \A p \in Targets : lrc[p] = 0
        /\ lsrc' = made
        /\ lrc' = [lrc EXCEPT ![FreshAddr] = 1]
        /\ ttag' = [ttag EXCEPT ![FreshAddr] = made.tag]
        /\ lstore' = Stored(dict, InsertAll(<<>>, m, 1))
        /\ llast' = ListOp("fromMap", "p", "r1", m, 0)
        /\ UNCHANGED <<views, vecs, notListButTag>>

\* The containers a view can be asked for: to<ListPtr<T>>() asserts
\* isGenericList(), to<DictPtr<K, V>>() asserts isGenericDict().
ViewKinds == {"GenericList", "GenericDict"}

\* What is left when generic_to's by-value parameter `ivalue` is destroyed
\* without having given its reference away (the assertion threw, and the
\* stack is unwound).
Dropped(ivalue) ==
  IF ivalue.is_intrusive_ptr THEN Released(ivalue.ptr)
  ELSE [lrc |-> lrc, lstore |-> lstore, ttag |-> ttag]

\* v.to<ListPtr<T>>() / v.to<DictPtr<K, V>>() on the source (const&):
\* generic_to is given a copy of the IValue (one more reference), and the
\* copy's reference moves into the view.  If the source is not a container
\* of the kind asked for, the assertion of toGenericList() / toGenericDict()
\* throws and the copy is destroyed with its reference: nothing has changed.
MakeView(k) ==
  \E T \in ViewKinds :
    /\ views[k] = NullPtr
    /\ IF TagMatches(T, lsrc)
         THEN /\ views' = [views EXCEPT ![k] =
                             IF T = "GenericList"
                               THEN generic_to_ListPtr(lsrc)
                               ELSE generic_to_DictPtr(lsrc)]
              /\ lrc' = [lrc EXCEPT ![lsrc.ptr] = @ + 1]
              /\ llast' = ListOp("view", k, "r1", <<>>, 0)
         ELSE /\ llast' = ListOp("viewFailed", "p", "r1", <<>>, 0)
              /\ UNCHANGED <<views, lrc>>
    /\ UNCHANGED <<lsrc, lstore, vecs, notListVars>>

\* std::move(v).to<ListPtr<T>>() / .to<DictPtr<K, V>>() on the source (&&):
\* generic_to is given the IValue itself, moved into its parameter, whose
\* reference moves into the view; the source is left None.  If the source
\* was not a container of the kind asked for, the assertion throws and the
\* parameter is destroyed with the reference it took over.
MoveView(k) ==
  \E T \in ViewKinds :
    LET ivalue == IValueMove(lsrc).to
    IN  /\ views[k] = NullPtr
        /\ lsrc' = IValueMove(lsrc).from
        /\ IF TagMatches(T, ivalue)
             THEN /\ views' = [views EXCEPT ![k] =
                                 IF T = "GenericList"
                                   THEN generic_to_ListPtr(ivalue)
                                   ELSE generic_to_DictPtr(ivalue)]
                  /\ llast' = ListOp("moveView", k, "r1", <<>>, 0)
                  /\ UNCHANGED <<lstore, lrc, ttag>>
             ELSE /\ lrc' = Dropped(ivalue).lrc
                  /\ lstore' = Dropped(ivalue).lstore
                  /\ ttag' = Dropped(ivalue).ttag
                  /\ llast' = ListOp("moveViewFailed", "p", "r1", <<>>, 0)
                  /\ UNCHANGED views
        /\ UNCHANGED <<vecs, notListButTag>>

\* view.push_back(x) on a list view
ViewPushBack(k) ==
  \E x \in ElemValues :
    /\ views[k] \in Targets /\ ttag[views[k]] = "GenericList"
    /\ Len(lstore[views[k]]) < MaxLen
    /\ lstore' = Stored(views[k], PushBack(lstore[views[k]], x))
    /\ llast' = ViewOp("push_back", k, <<x>>, 0)
    /\ UNCHANGED <<lsrc, lrc, views, vecs, notListVars>>

\* view.set(i, x) on a list view
ViewSet(k) ==
  \E x \in ElemValues :
    /\ views[k] \in Targets /\ ttag[views[k]] = "GenericList"
    /\ \E i \in 1 .. Len(lstore[views[k]]) :
         /\ lstore' = Stored(views[k], SetAt(lstore[views[k]], i, x))
         /\ llast' = ViewOp("set", k, <<x>>, i)
    /\ UNCHANGED <<lsrc, lrc, views, vecs, notListVars>>

\* view.insert(key, x) on a dict view
ViewInsert(k) ==
  \E key \in ElemValues, x \in ElemValues :
    /\ views[k] \in Targets /\ ttag[views[k]] = "GenericDict"
    /\ Len(lstore[views[k]]) < MaxLen
    /\ lstore' = Stored(views[k], DictInsert(lstore[views[k]], key, x))
    /\ llast' = ViewOp("insert", k, <<key, x>>, 0)
    /\ UNCHANGED <<lsrc, lrc, views, vecs, notListVars>>

\* r = v.to<std::vector<Elem>>() on the source (const&): generic_to is
\* given a copy of the IValue, whose reference is dropped with the local
\* list handle when generic_to returns.  If the source is not a generic
\* list the assertion of toGenericList() throws: nothing has changed.
ListToVector(r) ==
  /\ ~vecs[r].made
  /\ IF TagMatches("GenericList", lsrc)
       THEN /\ vecs' = [vecs EXCEPT ![r] =
                          [made |-> TRUE,
                           elems |-> generic_to_vector(lsrc, lstore).result]]
            /\ lstore' = Stored(lsrc.ptr, generic_to_vector(lsrc, lstore).list)
            /\ llast' = ListOp("toVector", "p", r, <<>>, 0)
       ELSE /\ llast' = ListOp("toVectorFailed", "p", "r1", <<>>, 0)
            /\ UNCHANGED <<vecs, lstore>>
  /\ UNCHANGED <<lsrc, lrc, views, notListVars>>

\* r = std::move(v).to<std::vector<Elem>>() on the source (&&): generic_to
\* is given the IValue itself, moved into its parameter, and the source is
\* left None; the reference goes to the local list handle and is dropped
\* with it when generic_to returns.  If the source was not a generic list
\* the assertion throws and the parameter is destroyed with its reference.
ListMoveToVector(r) ==
  LET ivalue == IValueMove(lsrc).to
      after == Stored(ivalue.ptr, generic_to_vector(ivalue, lstore).list)
      freed == Released(ivalue.ptr)
  IN  /\ ~vecs[r].made
      /\ lsrc' = IValueMove(lsrc).from
      /\ IF TagMatches("GenericList", ivalue)
           THEN /\ vecs' = [vecs EXCEPT ![r] =
                              [made |-> TRUE,
                               elems |->
                                 generic_to_vector(ivalue, lstore).result]]
                /\ lrc' = freed.lrc
                /\ lstore' = IF lrc[ivalue.ptr] = 1 THEN freed.lstore
                              ELSE after
                /\ ttag' = freed.ttag
                /\ llast' = ListOp("moveToVector", "p", r, <<>>, 0)
           ELSE /\ lrc' = Dropped(ivalue).lrc
                /\ lstore' = Dropped(ivalue).lstore
                /\ ttag' = Dropped(ivalue).ttag
                /\ llast' = ListOp("moveToVectorFailed", "p", "r1", <<>>, 0)
                /\ UNCHANGED vecs
      /\ UNCHANGED <<views, notListButTag>>

\* v.to<std::unordered_map<K, V>>() on the source (const&): generic_to is
\* given a copy of the IValue, whose reference is dropped with the dict
\* handle of the loop; the backing store is only read.  If the source is not
\* a generic dict the assertion of toGenericDict() throws: nothing has
\* changed.
DictToMap ==
  /\ llast' = IF TagMatches("GenericDict", lsrc)
                THEN MapOp("toMap", generic_to_unordered_map(lsrc, lstore))
                ELSE MapOp("toMapFailed", {})
  /\ UNCHANGED <<lsrc, lstore, lrc, views, vecs, notListVars>>

\* std::move(v).to<std::unordered_map<K, V>>() on the source (&&):
\* generic_to is given the IValue itself, moved into its parameter, and the
\* source is left None; the reference goes to the dict handle of the loop and
\* is dropped with it.  If the source was not a generic dict the assertion
\* throws and the parameter is destroyed with its reference.
DictMoveToMap ==
  LET ivalue == IValueMove(lsrc).to
  IN  /\ lsrc' = IValueMove(lsrc).from
      /\ lrc' = Dropped(ivalue).lrc
      /\ lstore' = Dropped(ivalue).lstore
      /\ ttag' = Dropped(ivalue).ttag
      /\ llast' = IF TagMatches("GenericDict", ivalue)
                    THEN MapOp("moveToMap",
                               generic_to_unordered_map(ivalue, lstore))
                    ELSE MapOp("moveToMapFailed", {})
      /\ UNCHANGED <<views, vecs, notListButTag>>

\* v.to<c10::optional<T>>(), either form, T a view, a vector or a map:
\* generic_to returns nullopt for a None IValue, and nothing has changed;
\* for any other IValue it returns std::move(ivalue).to<T>() of its
\* parameter, which is a copy of the source (const&) or the source moved
\* (&&): what to<T>() const& or to<T>() && do to the source.
ToOptional ==
  IF lsrc.tag = "None"
    THEN /\ llast' = ListOp("nullopt", "p", "r1", <<>>, 0)
         /\ UNCHANGED <<lsrc, lstore, lrc, views, vecs, notListVars>>
    ELSE \/ \E k \in Views : MakeView(k) \/ MoveView(k)
         \/ \E r \in Vecs : ListToVector(r) \/ ListMoveToVector(r)
         \/ DictToMap \/ DictMoveToMap

\* r.push_back(x) or r[i] = x on a result vector
VecMutate(r) ==
  \E x \in ElemValues :
    /\ vecs[r].made
    /\ \/ /\ Len(vecs[r].elems) < MaxLen
          /\ vecs' = [vecs EXCEPT ![r].elems = Append(@, x)]
       \/ \E i \in 1 .. Len(vecs[r].elems) :
            /\ vecs[r].elems[i] # x
            /\ vecs' = [vecs EXCEPT ![r].elems[i] = x]
    /\ llast' = ListOp("vecMutate", "p", r, <<x>>, 0)
    /\ UNCHANGED <<lsrc, lstore, lrc, views, notListVars>>

NextList ==
  \/ ListFromVector
  \/ DictFromMap
  \/ \E k \in Views :
       \/ MakeView(k) \/ MoveView(k)
       \/ ViewPushBack(k) \/ ViewSet(k) \/ ViewInsert(k)
  \/ \E r \in Vecs : ListToVector(r) \/ ListMoveToVector(r) \/ VecMutate(r)
  \/ DictToMap
  \/ DictMoveToMap
  \/ ToOptional

(* ------------------------------ Future -------------------------------- *)

\* bool completed() { return completed_; }
completed == completed_

\* No record and no container yet, and a Future as its member initialisers
\* leave it, no call made on it.
InitFuture ==
  /\ slots_ = <<>>
  /\ ohist = NoObject
  /\ olast = NoSlotCall
  /\ lsrc = NoneIValue
  /\ lstore = [p \in Targets |-> <<>>]
  /\ lrc = [p \in Targets |-> 0]
  /\ views = [k \in Views |-> NullPtr]
  /\ vecs = [r \in Vecs |-> NoVector]
  /\ llast = NoListOp
  /\ completed_ = FALSE
  /\ value_ = NoneValue
  /\ has_error = FALSE
  /\ error = NoError
  /\ callbacks = <<>>
  /\ mutex_ = NoThread
  /\ stack = [t \in Threads |-> <<>>]
  /\ fired = [t \in Threads |-> FALSE]
  /\ cv = [t \in Threads |-> "idle"]
  /\ calls = 0
  /\ nextId = 1
  /\ began = <<>>
  /\ ended = {}
  /\ enqueued = <<>>
  /\ snap = NoSnap
  /\ wins = 0
  /\ last = [t \in Threads |-> NoLast]

Init ==
  /\ InitFuture
  /\ iv = [s \in Slots |-> NoneIValue]
  /\ refcount_ = [p \in Targets |-> 0]
  /\ ttag = [p \in Targets |-> "None"]
  /\ held = [p \in Targets |-> 0]
  /\ xlast = NoExtraction
  /\ same = NoSame

\* Two IValues as the constructors leave them: a target has one kind, so
\* two owners of the same target have the same tag.
InitSame ==
  /\ InitFuture
  /\ iv \in [Slots -> SameValues]
  /\ (iv["x"].is_intrusive_ptr /\ iv["y"].is_intrusive_ptr
        /\ iv["x"].ptr = iv["y"].ptr) => iv["x"].tag = iv["y"].tag
  /\ refcount_ =
       [p \in Addrs |->
          Cardinality({s \in Slots : iv[s].is_intrusive_ptr /\ iv[s].ptr = p})]
  /\ ttag =
       [p \in Addrs |->
          IF \E s \in Slots : iv[s].is_intrusive_ptr /\ iv[s].ptr = p
            THEN (CHOOSE t \in PtrTags :
                    \E s \in Slots : iv[s] = IValueOf(t, p))
            ELSE "None"]
  /\ held = [p \in Addrs |-> 0]
  /\ xlast = NoExtraction
  /\ same = NoSame

hist == <<began, ended, enqueued, snap, wins>>
waitVars == <<fired, cv>>

Return(t, out, val) ==
  /\ stack' = Pop(t)
  /\ last' = [last EXCEPT ![t] = Outcome(t, out, val)]

CbFrame(cb) == Frame("cb", "c0", cb, "-", "")

(* ---- the clients: each idle thread may make one more call ---- *)


\* The threads are interchangeable: "A" names the one that calls first.
ClientCall(t, f) ==
  /\ Idle(t)
  /\ calls < MaxCalls
  /\ calls = 0 => t = "A"
  /\ stack' = [stack EXCEPT ![t] = <<f>>]
  /\ calls' = calls + 1
  /\ last' = [last EXCEPT ![t] = NoLast]

CallMarkCompletedValue(t) ==
  /\ \E v \in Values :
       ClientCall(t, Frame("markCompleted", "m0", NoCb, "value", v))
  /\ UNCHANGED <<futureVars, waitVars, hist, nextId>>
  /\ UNCHANGED dataVars

CallMarkCompletedError(t) ==
  /\ \E e \in Errors :
       ClientCall(t, Frame("markCompleted", "m0", NoCb, "error", e))
  /\ UNCHANGED <<futureVars, waitVars, hist, nextId>>
  /\ UNCHANGED dataVars

CallAddCallback(t) ==
  /\ \E k \in UserKinds :
       ClientCall(t, Frame("addCallback", "a0",
                           [id |-> nextId, kind |-> k, owner |-> t], "-", ""))
  /\ nextId' = nextId + 1
  /\ UNCHANGED <<futureVars, waitVars, hist>>
  /\ UNCHANGED dataVars

CallWait(t) ==
  /\ ClientCall(t, Frame("wait", "w0", NoCb, "-", ""))
  /\ UNCHANGED <<futureVars, waitVars, hist, nextId>>
  /\ UNCHANGED dataVars

CallValue(t) ==
  /\ ClientCall(t, Frame("value", "v0", NoCb, "-", ""))
  /\ UNCHANGED <<futureVars, waitVars, hist, nextId>>
  /\ UNCHANGED dataVars

(* ---- void markCompleted(IValue value) / (FutureError&& error_) ---- *)

\* Mutant: the double-completion assertion is missing.
McAssertPasses_NoCheck == TRUE

\* AT_ASSERT(!completed());
McAssertPasses == ~completed

\* Mutant: the critical section of markCompleted takes no lock.
McLock_Missing(t) == mutex_

\* std::unique_lock<std::mutex> lock(mutex_); -- the holder afterwards
McLock(t) == t

\* lock(mutex_); AT_ASSERT(!completed());
\* A failed assertion throws: the lock is released by unwinding and nothing
\* else of the function runs.
McEnter(t) ==
  /\ At(t, "markCompleted", "m0")
  /\ mutex_ = NoThread
  /\ IF McAssertPasses
       THEN /\ mutex_' = McLock(t)
            /\ stack' = SetTop(t, [Top(t) EXCEPT !.pc = "m1"])
            /\ UNCHANGED last
       ELSE /\ Return(t, "assert", "")
            /\ UNCHANGED mutex_
  /\ UNCHANGED <<completed_, value_, has_error, error, callbacks, waitVars,
                 calls, nextId, hist>>
  /\ UNCHANGED dataVars

\* completed_ = true; -- an atomic store, seen by completed() in any thread
McSet(t) ==
  /\ At(t, "markCompleted", "m1")
  /\ completed_' = TRUE
  /\ wins' = wins + 1
  /\ stack' = SetTop(t, [Top(t) EXCEPT !.pc = "m2"])
  /\ UNCHANGED <<value_, has_error, error, callbacks, mutex_, waitVars, calls,
                 nextId, began, ended, enqueued, snap, last>>
  /\ UNCHANGED dataVars

\* value_ = std::move(value);  or  has_error = true; error = std::move(error_);
\* then the end of the block releases the lock.
McStore(t) ==
  /\ At(t, "markCompleted", "m2")
  /\ IF Top(t).kind = "value"
       THEN /\ value_' = Top(t).x
            /\ UNCHANGED <<has_error, error>>
       ELSE /\ has_error' = TRUE
            /\ error' = Top(t).x
            /\ UNCHANGED value_
  /\ mutex_' = NoThread
  /\ snap' = IF snap.set THEN snap
             ELSE [set |-> TRUE, by |-> t, kind |-> Top(t).kind,
                   arg |-> Top(t).x, has_error |-> has_error',
                   value |-> value_', error |-> error']
  /\ stack' = SetTop(t, [Top(t) EXCEPT !.pc = "fire"])
  /\ UNCHANGED <<completed_, callbacks, waitVars, calls, nextId, began, ended,
                 enqueued, wins, last>>
  /\ UNCHANGED dataVars

\* Mutant: the queue is walked from the back.
FireOrder_Reversed(i) == callbacks[Len(callbacks) + 1 - i]

\* fireCallbacks: for (auto& callback : callbacks) -- the i-th one invoked.
FireOrder(i) == callbacks[i]

\* Mutant: the loop of fireCallbacks stops one short of the end.
FireEnd_OneShort ==
  IF callbacks = <<>> THEN Len(callbacks) ELSE Len(callbacks) - 1

\* fireCallbacks: for (auto& callback : callbacks) -- where the loop ends
FireEnd == Len(callbacks)

\* fireCallbacks: callback();
FireNext(t) ==
  /\ At(t, "markCompleted", "fire")
  /\ Top(t).i <= FireEnd
  /\ stack' = Call(t, [Top(t) EXCEPT !.i = @ + 1], CbFrame(FireOrder(Top(t).i)))
  /\ UNCHANGED <<futureVars, waitVars, hist, calls, nextId, last>>
  /\ UNCHANGED dataVars

\* A fireCallbacks that leaves the callbacks it has run in the queue.
FireClear_Forgotten == callbacks

\* callbacks.clear()
FireClear == <<>>

\* fireCallbacks: callbacks.clear(); and markCompleted returns.
FireDone(t) ==
  /\ At(t, "markCompleted", "fire")
  /\ Top(t).i > FireEnd
  /\ callbacks' = FireClear
  /\ Return(t, "ok", "")
  /\ UNCHANGED <<completed_, value_, has_error, error, mutex_, waitVars, hist,
                 calls, nextId>>
  /\ UNCHANGED dataVars

(* ---- void addCallback(std::function<void(void)> callback) ---- *)

\* Mutant: addCallback never looks at the completed flag and always queues.
AcRunsNow_Never == FALSE

\* if (completed())
AcRunsNow == completed

\* Mutant: the lock is not released before the immediate call.
AcUnlock_Held(t) == t

\* lock.unlock(); -- the holder of mutex_ afterwards
AcUnlock(t) == NoThread

\* Mutant: the `return` after the immediate call is missing, so the callback
\* is queued as well.
AcQueue_NoReturn(cb) == Append(callbacks, cb)

\* if (completed()) { ...; return; } callbacks.push_back(callback);
\* -- the queue after addCallback(cb)
AcQueue(cb) == IF AcRunsNow THEN callbacks ELSE Append(callbacks, cb)

\* lock(mutex_); if (completed()) { lock.unlock(); callback(); ... }
\* else callbacks.push_back(callback); and the lock's destructor unlocks.
AcEnter(t) ==
  /\ At(t, "addCallback", "a0")
  /\ mutex_ = NoThread
  /\ callbacks' = AcQueue(Top(t).cb)
  /\ enqueued' = IF callbacks' = callbacks THEN enqueued
                 ELSE Append(enqueued, Top(t).cb.id)
  /\ IF AcRunsNow
       THEN /\ mutex_' = AcUnlock(t)
            /\ stack' = Call(t, [Top(t) EXCEPT !.pc = "a2"], CbFrame(Top(t).cb))
            /\ UNCHANGED last
       ELSE /\ Return(t, "ok", "queued")
            /\ UNCHANGED mutex_
  /\ UNCHANGED <<completed_, value_, has_error, error, waitVars, calls, nextId,
                 began, ended, snap, wins>>
  /\ UNCHANGED dataVars

\* return; -- the lock's destructor unlocks if the lock is still owned
AcReturn(t) ==
  /\ At(t, "addCallback", "a2")
  /\ mutex_' = IF mutex_ = t THEN NoThread ELSE mutex_
  /\ Return(t, "ok", "ran")
  /\ UNCHANGED <<completed_, value_, has_error, error, callbacks, waitVars,
                 hist, calls, nextId>>
  /\ UNCHANGED dataVars

(* ---- IValue value() ---- *)

\* Mutant: value() does not look at has_error.
ValueOutcome_IgnoresError ==
  IF ~completed_ THEN [out |-> "assert", val |-> ""]
  ELSE [out |-> "ok", val |-> value_]

\* AT_ASSERT(completed()); if (has_error) throw error; return value_;
ValueOutcome ==
  IF ~completed THEN [out |-> "assert", val |-> ""]
  ELSE IF has_error THEN [out |-> "throw", val |-> error]
  ELSE [out |-> "ok", val |-> value_]

\* The whole body runs under the lock.
ValueStep(t) ==
  /\ At(t, "value", "v0")
  /\ mutex_ = NoThread
  /\ Return(t, ValueOutcome.out, ValueOutcome.val)
  /\ UNCHANGED <<futureVars, waitVars, hist, calls, nextId>>
  /\ UNCHANGED dataVars

(* ---- void wait() ---- *)

\* Mutant: `if (!fired)` instead of `while (!fired)`: no test after a wakeup.
WaitLoopExits_IfOnly(t) == fired[t] \/ At(t, "wait", "w3")

\* Mutant: the loop tests the Future's flag, `while (!completed())`.
WaitLoopExits_OnCompleted(t) == completed

\* while (!fired)
WaitLoopExits(t) == fired[t]

\* AT_ASSERT(completed()); at the end of wait()
WaitResult == IF completed THEN "ok" ELSE "assert"

\* [&] {...}: the lambda of this wait() call, which refers to the `finished`
\* and `fired` of thread t's frame.  The frame of wait() keeps it as a local.
WaitLambda(t) == [id |-> nextId, kind |-> "notify", owner |-> t]

\* if (completed()) return;  otherwise the locals are set up and
\* addCallback([&] {...}) is called.
WaitCheck(t) ==
  /\ At(t, "wait", "w0")
  /\ IF completed
       THEN /\ Return(t, "ok", "immediate")
            /\ UNCHANGED <<nextId, waitVars>>
       ELSE /\ stack' = Call(t, [Top(t) EXCEPT !.pc = "w2", !.reg = TRUE,
                                                !.cb = WaitLambda(t)],
                             Frame("addCallback", "a0", WaitLambda(t),
                                   "-", ""))
            /\ nextId' = nextId + 1
            /\ fired' = [fired EXCEPT ![t] = FALSE]
            /\ cv' = [cv EXCEPT ![t] = "idle"]
            /\ UNCHANGED last
  /\ UNCHANGED <<futureVars, hist, calls>>
  /\ UNCHANGED dataVars

\* The loop test under the lock: leave the loop (and return through the final
\* assertion), or finished.wait(lock), which releases the lock and blocks.
WaitTest(t) ==
  /\ mutex_ = NoThread
  /\ IF WaitLoopExits(t)
       THEN /\ Return(t, WaitResult, "waited")
            /\ cv' = [cv EXCEPT ![t] = "idle"]
       ELSE /\ stack' = SetTop(t, [Top(t) EXCEPT !.pc = "w3", !.blk = TRUE])
            /\ cv' = [cv EXCEPT ![t] = "waiting"]
            /\ UNCHANGED last
  /\ UNCHANGED <<futureVars, fired, hist, calls, nextId>>
  /\ UNCHANGED dataVars

\* std::unique_lock<std::mutex> lock(mutex_); while (!fired) ...
WaitLock(t) ==
  /\ At(t, "wait", "w2")
  /\ WaitTest(t)

\* finished.wait(lock) returns after notify_all: the lock is taken again and
\* the loop test repeated.
WaitWake(t) ==
  /\ At(t, "wait", "w3")
  /\ cv[t] = "notified"
  /\ WaitTest(t)

\* finished.wait(lock) returns with no notification (a spurious wakeup).
WaitSpurious(t) ==
  /\ At(t, "wait", "w3")
  /\ cv[t] = "waiting"
  /\ WaitTest(t)

(* ---- callback bodies ---- *)

Begin(t) == began' = Append(began, [id |-> Top(t).cb.id, by |-> t])
End(t) == ended' = ended \cup {Top(t).cb.id}

AtBody(t, kind) == At(t, "cb", "c0") /\ Top(t).cb.kind = kind

\* A client callback that calls nothing.
CbPlain(t) ==
  /\ AtBody(t, "plain")
  /\ Begin(t)
  /\ End(t)
  /\ stack' = Pop(t)
  /\ UNCHANGED <<futureVars, waitVars, calls, nextId, enqueued, snap, wins,
                 last>>
  /\ UNCHANGED dataVars

\* Mutant: the lambda notifies but forgets to set the flag.
NotifyFired_Forgotten == FALSE

\* fired = true; -- the value the waiter's flag has afterwards
NotifyFired == TRUE

\* wait()'s lambda:
\*   std::unique_lock<std::mutex> lock(mutex_);
\*   finished.notify_all(); fired = true;
CbNotify(t) ==
  /\ AtBody(t, "notify")
  /\ mutex_ = NoThread
  /\ cv' = [cv EXCEPT ![Top(t).cb.owner] =
              IF @ = "waiting" THEN "notified" ELSE @]
  /\ fired' = [fired EXCEPT ![Top(t).cb.owner] = NotifyFired]
  /\ Begin(t)
  /\ End(t)
  /\ stack' = Pop(t)
  /\ UNCHANGED <<futureVars, calls, nextId, enqueued, snap, wins, last>>
  /\ UNCHANGED dataVars

\* The re-entrant client callback, first statement: addCallback(...).
CbReAdd(t) ==
  /\ AtBody(t, "reenter")
  /\ Begin(t)
  /\ stack' = Call(t, [Top(t) EXCEPT !.pc = "c1"],
                   Frame("addCallback", "a0",
                         [id |-> nextId, kind |-> "plain", owner |-> t],
                         "-", ""))
  /\ nextId' = nextId + 1
  /\ UNCHANGED <<futureVars, waitVars, calls, ended, enqueued, snap, wins,
                 last>>
  /\ UNCHANGED dataVars

\* The re-entrant client callback, second statement: wait().
CbReWait(t) ==
  /\ At(t, "cb", "c1")
  /\ stack' = Call(t, [Top(t) EXCEPT !.pc = "c2"],
                   Frame("wait", "w0", NoCb, "-", ""))
  /\ UNCHANGED <<futureVars, waitVars, hist, calls, nextId, last>>
  /\ UNCHANGED dataVars

\* The re-entrant client callback, third statement: value(), in a try block.
CbReValue(t) ==
  /\ At(t, "cb", "c2")
  /\ stack' = Call(t, [Top(t) EXCEPT !.pc = "c3"],
                   Frame("value", "v0", NoCb, "-", ""))
  /\ UNCHANGED <<futureVars, waitVars, hist, calls, nextId, last>>
  /\ UNCHANGED dataVars

\* The re-entrant client callback returns.
CbReturn(t) ==
  /\ At(t, "cb", "c3")
  /\ End(t)
  /\ stack' = Pop(t)
  /\ UNCHANGED <<futureVars, waitVars, calls, nextId, began, enqueued, snap,
                 wins, last>>
  /\ UNCHANGED dataVars

(* ---- the system ---- *)

\* A step of thread t inside a call it has started.
Progress(t) ==
  \/ McEnter(t) \/ McSet(t) \/ McStore(t) \/ FireNext(t) \/ FireDone(t)
  \/ AcEnter(t) \/ AcReturn(t)
  \/ ValueStep(t)
  \/ WaitCheck(t) \/ WaitLock(t) \/ WaitWake(t)
  \/ CbPlain(t) \/ CbNotify(t) \/ CbReAdd(t) \/ CbReWait(t) \/ CbReValue(t)
  \/ CbReturn(t)

Start(t) ==
  \/ CallMarkCompletedValue(t) \/ CallMarkCompletedError(t)
  \/ CallAddCallback(t) \/ CallWait(t) \/ CallValue(t)

Next == \E t \in Threads : Start(t) \/ Progress(t) \/ WaitSpurious(t)

\* The Future driven by the client threads.
Spec == Init /\ [][Next]_vars

\* IValues and handles driven by one client.
SpecIV == Init /\ [][NextIV]_vars
SpecSame == InitSame /\ [][NextSame]_vars
SpecObj == Init /\ [][NextObj]_vars
SpecList == Init /\ [][NextList]_vars

\* Fair scheduling: a thread that can keep running does run, and a thread
\* that is ready whenever the mutex is free eventually gets it.  Spurious
\* wakeups and new client calls are never required to happen.
SpecFair == Spec /\ \A t \in Threads : SF_vars(Progress(t))

(* ====================== properties of the Future ====================== *)

\* Identities of the callbacks handed to addCallback so far.
Ids == 1 .. (nextId - 1)
\* How many times the body of callback id has begun.
Runs(id) == Cardinality({k \in 1 .. Len(began) : began[k].id = id})
\* The thread(s) that ran callback id.
RunBy(id) == {began[k].by : k \in {j \in 1 .. Len(began) : began[j].id = id}}
\* Identities in a sequence of identities / of callbacks.
Range(q) == {q[k] : k \in 1 .. Len(q)}
QueuedIds == {callbacks[k].id : k \in 1 .. Len(callbacks)}
Quiescent == \A t \in Threads : Idle(t)
InCall(t, op) == \E k \in 1 .. Len(stack[t]) : stack[t][k].op = op
\* Thread t takes a step of its own.
Steps(t) == stack'[t] # stack[t]

\* C1: once the first completion has stored its result, the Future stays
\* completed and keeps the same value-vs-error kind, value and error in every
\* later state, whatever calls follow.
C1_SingleAssignment ==
  snap.set =>
    /\ completed_
    /\ has_error = snap.has_error
    /\ value_ = snap.value
    /\ error = snap.error

\* A second markCompleted and a value() have both run after the completion.
C1_Witness ==
  /\ snap.set
  /\ \E t \in Threads : last[t].op = "markCompleted" /\ last[t].out = "assert"
  /\ \E t \in Threads : last[t].op = "value" /\ last[t].sc

\* The step of a markCompleted call that finds the Future completed.
C2_LoserStep(t) ==
  (At(t, "markCompleted", "m0") /\ completed_ /\ Steps(t)) =>
    /\ Idle(t)'
    /\ last'[t].op = "markCompleted" /\ last'[t].out = "assert"
    /\ UNCHANGED <<completed_, value_, has_error, error, callbacks, began,
                   ended, snap>>

\* The outcomes of the markCompleted calls made so far.
C2_State ==
  /\ wins <= 1
  /\ \A t \in Threads :
       last[t].op = "markCompleted" =>
         /\ last[t].sc => last[t].out = "assert"
         /\ last[t].out = "ok" => (snap.by = t /\ ~last[t].sc)
         /\ last[t].out \in {"ok", "assert"}
  /\ (\E t \in Threads : last[t].op = "markCompleted") => wins = 1

\* C2: a markCompleted call that reaches its assertion on a completed Future
\* ends there with the assertion failure and changes neither the Future nor
\* the callbacks run; a call made on a completed Future never ends otherwise;
\* and of the markCompleted calls racing on a pending Future exactly one sets
\* the state (the others fail the assertion).
C2_DoubleCompletion ==
  [][C2_State' /\ \A t \in Threads : C2_LoserStep(t)]_vars

\* Two racing markCompleted calls, both started on the pending Future, have
\* both returned.
C2_Witness ==
  /\ \A t \in Threads : last[t].op = "markCompleted" /\ ~last[t].sc
  /\ \E t \in Threads : last[t].out = "assert"
  /\ \E t \in Threads : last[t].out = "ok"

\* C3: no callback ever runs twice; a callback that has been queued and has
\* not run yet is still in the queue of a Future that is pending or whose
\* completing markCompleted has not returned; so once the Future is completed
\* and every call has returned, each registered callback has run exactly once.
C3_ExactlyOnce ==
  /\ \A id \in Ids : Runs(id) <= 1
  /\ \A id \in Range(enqueued) :
       Runs(id) = 0 =>
         /\ id \in QueuedIds
         /\ ~completed_ \/ (snap.set => InCall(snap.by, "markCompleted"))
  /\ (Quiescent /\ completed_) => \A id \in Ids : Runs(id) = 1

\* Registration raced with completion: one callback was queued, another was
\* handed to addCallback while the Future was pending and found it completed,
\* and everything has returned.
C3_Witness ==
  /\ Quiescent /\ completed_
  /\ Len(enqueued) >= 1
  /\ \E t \in Threads :
       last[t].op = "addCallback" /\ ~last[t].sc /\ last[t].val = "ran"

\* C4: the callbacks queued while the Future was pending are run by the
\* completing markCompleted call: on its thread, before it returns, in the
\* order of registration, and only after the completed state has been set.
C4_FireOrder ==
  LET ran == SelectSeq(began, LAMBDA b : b.id \in Range(enqueued))
  IN /\ Len(ran) <= Len(enqueued)
     /\ \A k \in 1 .. Len(ran) :
          /\ ran[k].id = enqueued[k]
          /\ ran[k].by = snap.by
     /\ Len(ran) > 0 =>
          /\ snap.set /\ completed_
          /\ Len(ran) < Len(enqueued) => InCall(snap.by, "markCompleted")
     /\ \A t \in Threads :
          (last[t].op = "markCompleted" /\ last[t].out = "ok") =>
             /\ Len(ran) = Len(enqueued)
             /\ Range(enqueued) \subseteq ended

\* Two callbacks queued by different threads have been fired.
C4_Witness ==
  /\ Len(enqueued) >= 2
  /\ \A k \in 1 .. Len(enqueued) : Runs(enqueued[k]) = 1
  /\ \E t \in Threads : last[t].op = "markCompleted" /\ last[t].out = "ok"

\* C5: an addCallback call made on a completed Future has, when it returns,
\* run its callback to the end on the calling thread, and has not queued it.
C5_RunsImmediately ==
  \A t \in Threads :
    (last[t].op = "addCallback" /\ last[t].sc) =>
      /\ last[t].out = "ok" /\ last[t].val = "ran"
      /\ Runs(last[t].id) = 1
      /\ RunBy(last[t].id) = {t}
      /\ last[t].id \in ended
      /\ last[t].id \notin Range(enqueued)
      /\ last[t].id \notin QueuedIds

\* Such a call has returned, while callbacks queued earlier exist.
C5_Witness ==
  /\ \E t \in Threads : last[t].op = "addCallback" /\ last[t].sc
  /\ Len(enqueued) >= 1

\* C6: every wait() that returns passes its final assertion: the completed
\* flag is set when wait() returns, also after spurious wakeups.
C6_WaitReturnsCompleted ==
  \A t \in Threads :
    last[t].op = "wait" => (last[t].out = "ok" /\ completed_)

\* A wait() that blocked on the condition variable has returned.
C6_Witness ==
  \E t \in Threads : last[t].op = "wait" /\ last[t].blk /\ last[t].out = "ok"

MarkCalled == completed_ \/ \E u \in Threads : InCall(u, "markCompleted")

\* What a returned wait() call made on a completed Future has done.
C7_Immediate ==
  \A t \in Threads :
    (last[t].op = "wait" /\ last[t].sc) =>
      /\ last[t].out = "ok" /\ last[t].val = "immediate"
      /\ ~last[t].reg /\ ~last[t].blk

\* C7: a wait() call made on a completed Future returns at once, having
\* registered no callback and never blocked; and under fair scheduling every
\* wait() call returns once markCompleted has been called.
C7_WaitTerminates ==
  /\ []C7_Immediate
  /\ \A t \in Threads :
       (InCall(t, "wait") /\ MarkCalled) ~> ~InCall(t, "wait")

\* One wait() blocked and was woken, another was made after completion.
C7_Witness ==
  /\ \E t \in Threads : last[t].op = "wait" /\ last[t].sc
  /\ \E t \in Threads : last[t].op = "wait" /\ last[t].blk
                        /\ last[t].val = "waited"

\* C8: a thread that is about to run a callback body does not hold the
\* Future's mutex; the holder of the mutex can always take its next step; and
\* a thread that cannot take a step is either waiting for a mutex another
\* thread holds or blocked in wait() with its flag not yet set -- so no thread
\* waits for itself, and callbacks that call addCallback, wait or value run on.
C8_NoLockInCallback ==
  \A t \in Threads :
    /\ At(t, "cb", "c0") => mutex_ # t
    /\ mutex_ = t => ENABLED Progress(t)
    /\ (~Idle(t) /\ ~ENABLED Progress(t)) =>
         \/ mutex_ \notin {NoThread, t}
         \/ At(t, "wait", "w3") /\ cv[t] = "waiting" /\ ~fired[t]

\* value() has returned to a callback fired by markCompleted, and a callback
\* run at once by addCallback has called back into the Future too.
C8_Witness ==
  \E t, u \in Threads :
    /\ last[t].op = "value" /\ last[t].depth = 3
    /\ InCall(t, "markCompleted")
    /\ last[u].op = "addCallback" /\ last[u].depth = 1 /\ last[u].val = "ran"
    /\ \E k \in 1 .. Len(began) : began[k].by = u /\ began[k].id # last[u].id

\* The step of a value() call.
C9_ValueStep(t) ==
  (At(t, "value", "v0") /\ Steps(t)) =>
    /\ last'[t].op = "value"
    /\ IF ~completed_ THEN last'[t].out = "assert"
       ELSE IF snap.kind = "error"
         THEN last'[t].out = "throw" /\ last'[t].val = snap.arg
         ELSE last'[t].out = "ok" /\ last'[t].val = snap.arg
    /\ UNCHANGED futureVars

\* Only value() ends by throwing the stored error.
C9_OnlyValueThrows ==
  \A t \in Threads : last[t].out = "throw" => last[t].op = "value"

\* C9: value() fails its assertion on a pending Future, returns the value
\* given to the completing markCompleted, or throws the error given to it,
\* each time it is called; it changes nothing of the Future; and no call
\* other than value() ever ends by throwing the error.
C9_Value ==
  [][C9_OnlyValueThrows' /\ \A t \in Threads : C9_ValueStep(t)]_vars

\* Both threads have had the error thrown at them by value().
C9_Witness ==
  \A t \in Threads :
    last[t].op = "value" /\ last[t].out = "throw" /\ last[t].val \in Errors

\* The markCompleted call that completed the Future has returned: the
\* Future is completed and every markCompleted call in progress is still
\* before its assertion.
MarkReturned ==
  /\ completed_
  /\ \A t \in Threads : \A k \in 1 .. Len(stack[t]) :
       stack[t][k].op = "markCompleted" => stack[t][k].pc = "m0"

\* C20: the callback queue changes only by a callback being appended while
\* the Future is pending and by being emptied in the step in which the
\* completing markCompleted returns; once that call has returned the queue
\* is empty, in that state and ever after.
C20_DrainedOnce ==
  [][/\ MarkReturned => MarkReturned'
     /\ MarkReturned' => callbacks' = <<>>
     /\ callbacks' # callbacks =>
          IF completed_
            THEN callbacks' = <<>> /\ ~MarkReturned /\ MarkReturned'
            ELSE /\ Len(callbacks') = Len(callbacks) + 1
                 /\ SubSeq(callbacks', 1, Len(callbacks)) = callbacks]_vars

\* A callback was queued and drained, and an addCallback made after the
\* completion has returned.
C20_Witness ==
  /\ MarkReturned /\ callbacks = <<>>
  /\ Len(enqueued) >= 1
  /\ \E t \in Threads : last[t].op = "addCallback" /\ last[t].sc

\* Thread t is about to begin the body of a callback that addCallback runs
\* at once, and the addCallback call that does so.
RunAtOnce(t) ==
  /\ At(t, "cb", "c0")
  /\ Depth(t) >= 2
  /\ stack[t][Depth(t) - 1].op = "addCallback"
Registrar(t) == stack[t][Depth(t) - 1]

\* markCompleted (its fireCallbacks) has invoked callback id: the call is in
\* progress, or the body has begun.
InvokedByMark(id) ==
  \/ Runs(id) >= 1
  \/ \E u \in Threads : \E k \in 2 .. Len(stack[u]) :
       /\ stack[u][k].op = "cb" /\ stack[u][k].cb.id = id
       /\ stack[u][k - 1].op = "markCompleted"

\* C21, as stated: the body of a callback run at once by an addCallback call
\* that started on the completed Future begins only when markCompleted has
\* invoked every callback that was queued.
C21_RegistrationOrder ==
  [][\A t \in Threads :
       (RunAtOnce(t) /\ Registrar(t).sc /\ Steps(t)) =>
          \A id \in Range(enqueued) : InvokedByMark(id)]_vars

\* C21, amended: the body of a callback run at once begins after every queued
\* callback has been invoked by markCompleted whenever it begins after the
\* completing markCompleted call has returned -- as it does whenever its
\* addCallback call started after that return.
C21_OrderAfterReturn ==
  [][\A t \in Threads :
       (RunAtOnce(t) /\ MarkReturned /\ Steps(t)) =>
          \A id \in Range(enqueued) : InvokedByMark(id)]_vars

\* A re-entrant callback handed to addCallback after the completing
\* markCompleted returned has begun, a queued callback having been fired.
C21_Witness ==
  /\ MarkReturned
  /\ Len(enqueued) >= 1
  /\ \E t \in Threads :
       /\ At(t, "cb", "c1")
       /\ Depth(t) = 2
       /\ stack[t][1].op = "addCallback" /\ stack[t][1].sc

\* The wait() call that created the lambda cb has not returned: its frame,
\* with the `finished` and `fired` the lambda refers to, is on the stack of
\* the thread that called it.
LiveWait(cb) ==
  \E k \in 1 .. Len(stack[cb.owner]) :
    stack[cb.owner][k].op = "wait" /\ stack[cb.owner][k].cb = cb

\* The step in which thread t runs the body of a wait() lambda, which
\* notifies `finished` and writes `fired`.
C22_NotifyStep(t) ==
  (AtBody(t, "notify") /\ Steps(t)) =>
    \A cb \in {Top(t).cb} : LiveWait(cb) /\ LiveWait(cb)'

\* A step that changes the `fired` or `finished` of thread u's wait().
C22_LocalsStep(u) ==
  (fired'[u] # fired[u] \/ cv'[u] # cv[u]) =>
    \/ Steps(u) /\ InCall(u, "wait")
    \/ \E t \in Threads :
         AtBody(t, "notify") /\ Steps(t) /\ Top(t).cb.owner = u

\* C22: the lambda that wait() registers touches the `finished` and `fired`
\* it captured only while the wait() call that owns them is still running,
\* and that call is still running when the lambda is done with them; nothing
\* but that call and its lambda ever changes them.
C22_NoAccessAfterReturn ==
  [][/\ \A t \in Threads : C22_NotifyStep(t)
     /\ \A u \in Threads : C22_LocalsStep(u)]_vars

\* A wait() that blocked has returned after the other thread, completing the
\* Future, ran its lambda.
C22_Witness ==
  \E t \in Threads :
    /\ last[t].op = "wait" /\ last[t].blk /\ last[t].val = "waited"
    /\ \E k \in 1 .. Len(began) :
         began[k].id = last[t].id /\ began[k].by # t

(* ====================== properties of the IValue ====================== *)

\* C10: a moving accessor called on an IValue of its own pointer-owning tag
\* returns a handle to the target the IValue owned, leaves the IValue None
\* with no owned pointer, and leaves the target's reference count as it was.
C10_MoveExtraction ==
  (xlast.op = "move" /\ xlast.ok) =>
    /\ xlast.got = xlast.src.ptr
    /\ xlast.after = NoneIValue
    /\ xlast.count = xlast.before

\* C11, as stated: a borrowing accessor called on an IValue of its own
\* pointer-owning tag returns a new handle to the same target, raises the
\* target's reference count by exactly one, and leaves the IValue's tag,
\* payload pointer and ownership flag as they were.
C11_BorrowRaisesCount ==
  (xlast.op = "borrow" /\ xlast.ok) =>
    /\ xlast.got = xlast.src.ptr
    /\ xlast.count = xlast.before + 1
    /\ xlast.after = xlast.src
    /\ iv[xlast.slot] = xlast.src

\* C11, amended: a borrowing accessor called on an IValue of its own
\* pointer-owning tag returns a handle to what the IValue holds and leaves
\* the IValue's tag, payload pointer and ownership flag as they were; if the
\* IValue owns a target the handle is a new owner of it and the target's
\* reference count has risen by exactly one; if it is an undefined tensor
\* (the Tensor tag, no owned pointer) the handle is the undefined tensor
\* again and no reference count has changed.
C11_BorrowExtraction ==
  (xlast.op = "borrow" /\ xlast.ok) =>
    /\ xlast.got = xlast.src.ptr
    /\ xlast.after = xlast.src
    /\ iv[xlast.slot] = xlast.src
    /\ IF xlast.src.is_intrusive_ptr
         THEN /\ xlast.got \in Targets
              /\ xlast.count = xlast.before + 1
              /\ held[xlast.got] >= 1
         ELSE /\ xlast.src = UndefinedTensor
              /\ xlast.got = UndefinedPtr
              /\ xlast.count = xlast.before

\* A borrow from an IValue whose target already had a second owner.
C11_Witness ==
  /\ xlast.op = "borrow" /\ xlast.ok
  /\ xlast.src.tag \in PtrTags
  /\ xlast.before = 1 /\ xlast.count = 2

\* The owners of target p: the IValues that hold its pointer and the live
\* handles outside IValues.
Owners(p) ==
  Cardinality({s \in Slots : iv[s].is_intrusive_ptr /\ iv[s].ptr = p})
    + held[p]

\* C12: whatever constructions, extractions and destructions have happened,
\* every target's reference count is the number of its live owners; so a
\* target is alive while it has an owner and freed (count zero) exactly when
\* it has been allocated and its last owner is gone.
C12_CountIsOwners ==
  \A p \in Targets :
    /\ refcount_[p] = Owners(p)
    /\ (ttag[p] # "None" /\ refcount_[p] = 0) <=>
         (ttag[p] # "None" /\ Owners(p) = 0)

\* A target that was allocated has lost its last owner and is freed, while
\* the IValue that held it is empty again.
C12_Witness ==
  \E p \in Targets :
    /\ ttag[p] # "None" /\ refcount_[p] = 0 /\ held[p] = 0
    /\ \A s \in Slots : iv[s] = NoneIValue

\* C13: an accessor call (moving, borrowing or ...Ref form) passes its
\* assertion only on an IValue whose tag is the accessor's; a call that fails
\* it returns no handle and changes no IValue, no reference count and no
\* handle.
C13_TagMismatch ==
  [][xlast'.op # "none" =>
       /\ xlast'.ok => xlast'.acc = iv[xlast'.slot].tag
       /\ ~xlast'.ok =>
            /\ xlast'.got = NullPtr
            /\ UNCHANGED <<iv, refcount_, ttag, held>>]_vars

\* A moving accessor of another pointer-owning tag has failed on an IValue
\* whose target has two owners.
C13_Witness ==
  /\ xlast.op = "move" /\ ~xlast.ok
  /\ xlast.src.is_intrusive_ptr /\ iv[xlast.slot] = xlast.src
  /\ refcount_[xlast.src.ptr] = 2

\* C14 as claimed: the tag determines the ownership flag -- never set with
\* an inline tag, always set with a pointer-owning tag, Tensor included.
C14_TagDeterminesFlag ==
  \A s \in Slots :
    /\ iv[s].tag \in InlineTags => ~iv[s].is_intrusive_ptr
    /\ iv[s].tag \in PtrTags => iv[s].is_intrusive_ptr

\* C14, amended: an IValue with an inline tag never has is_intrusive_ptr
\* set; one with a list, dict, tuple, object, future, string or blob tag
\* always has it set and holds a target of its kind; one with the Tensor tag
\* has it set exactly when its tensor is defined.
C14_FlagByTag ==
  \A s \in Slots :
    /\ iv[s].tag \in InlineTags \/ iv[s].tag \in PtrTags
    /\ iv[s].tag \in InlineTags => ~iv[s].is_intrusive_ptr
    /\ iv[s].tag \in PtrTags \ {"Tensor"} => iv[s].is_intrusive_ptr
    /\ iv[s].tag = "Tensor" =>
         (iv[s].is_intrusive_ptr <=> iv[s].ptr # UndefinedPtr)
    /\ iv[s].is_intrusive_ptr =>
         iv[s].ptr \in Targets /\ ttag[iv[s].ptr] = iv[s].tag

\* An undefined tensor next to an IValue that still owns its target after a
\* borrowing extraction.
C14_Witness ==
  /\ \E s \in Slots : iv[s] = UndefinedTensor
  /\ xlast.op = "borrow" /\ xlast.ok /\ xlast.src.is_intrusive_ptr
  /\ iv[xlast.slot].is_intrusive_ptr

(* ===================== properties of isSameIdentity ==================== *)

\* The arguments of the last isSameIdentity call.
SameLhs == iv[same.lhs]
SameRhs == iv[same.rhs]
OwnTheSame(a, b) ==
  a.is_intrusive_ptr /\ b.is_intrusive_ptr /\ a.ptr = b.ptr

\* C15: isSameIdentity is reference identity.  None is None; two booleans
\* are identical when they are equal; two tensors when their pointers are
\* equal; the undefined tensor and None are identical in both directions and
\* a defined tensor and None are not; every other pair is identical exactly
\* when both own a pointer and own the same one -- so two integers or two
\* doubles never are, and two lists are only when they share their target.
C15_Identity ==
  same.called =>
    LET a == SameLhs
        b == SameRhs
        r == same.result
    IN  /\ (a = NoneIValue /\ b = NoneIValue) => r
        /\ (a.tag = "Bool" /\ b.tag = "Bool") => (r <=> a.ptr = b.ptr)
        /\ (a.tag = "Tensor" /\ b.tag = "Tensor") => (r <=> a.ptr = b.ptr)
        /\ ({a, b} = {UndefinedTensor, NoneIValue}) => r
        /\ (\E p \in Addrs : {a, b} = {IValueOf("Tensor", p), NoneIValue})
             => ~r
        /\ ({a.tag, b.tag} \notin
               {{"None"}, {"Bool"}, {"Tensor"}, {"Tensor", "None"}})
             => (r <=> OwnTheSame(a, b))
        /\ ({a.tag, b.tag} \subseteq {"Int", "Double"}) => ~r
        /\ (a.tag = "GenericList" /\ b.tag = "GenericList")
             => (r <=> a.ptr = b.ptr)

\* Two generic lists with targets of their own have been compared.
C15_Witness ==
  /\ same.called /\ ~same.result
  /\ SameLhs.tag = "GenericList" /\ SameRhs.tag = "GenericList"
  /\ SameLhs.ptr # SameRhs.ptr

(* ====================== properties of the Object ======================= *)

\* C16: on a record constructed with N slots and still of that length,
\* setSlot(N+5, v) succeeds: afterwards the slot vector has length N+6,
\* slot N+5 holds v, slots N..N+4 hold None and slots 0..N-1 hold what they
\* held before the call.
C16_SetSlotGrows ==
  LET n == ohist.numSlots
  IN  (olast.op = "setSlot" /\ olast.slot = n + 5 /\ Len(olast.before) = n)
        => /\ olast.out = "ok"
           /\ Len(slots_) = n + 6
           /\ getSlot(slots_, n + 5) = [out |-> "ok", val |-> olast.v]
           /\ \A i \in n .. n + 4 :
                getSlot(slots_, i) = [out |-> "ok", val |-> NoneIValue]
           /\ \A i \in 0 .. n - 1 :
                getSlot(slots_, i) = getSlot(olast.before, i)

\* A record constructed with one slot, which was written, has been grown
\* by setSlot(6, v) with v not None.
C16_Witness ==
  /\ ohist.numSlots = 1
  /\ olast.op = "setSlot" /\ olast.slot = 6
  /\ olast.before = <<ScalarIValue("Int", 1)>>
  /\ olast.v # NoneIValue

\* The slot indices written so far.
Written == DOMAIN ohist.written

\* C17: the slot vector never gets shorter and is longer than the highest
\* index ever written, and getSlot of an index ever written succeeds and
\* returns the value last written to it.
C17_SlotsOnlyGrow ==
  [][/\ Len(slots_') >= Len(slots_)
     /\ \A i \in DOMAIN ohist'.written :
          /\ i < Len(slots_')
          /\ getSlot(slots_', i) = [out |-> "ok", val |-> ohist'.written[i]]
     /\ (olast'.op = "getSlot" /\ olast'.slot \in DOMAIN ohist'.written) =>
          /\ olast'.out = "ok"
          /\ olast'.val = ohist'.written[olast'.slot]]_vars

\* getSlot has read back a slot that was written before the vector grew
\* past it.
C17_Witness ==
  /\ olast.op = "getSlot" /\ olast.out = "ok"
  /\ olast.slot \in Written /\ olast.val # NoneIValue
  /\ \E j \in Written : j > olast.slot + 1
  /\ Len(slots_) > ohist.numSlots

(* ================= properties of the lists and dicts =================== *)

\* The elements of a backing store, each converted with to<std::string>().
Strings(list) == [i \in 1 .. Len(list) |-> list[i].str]

\* C18: to<std::vector<Elem>>() on a generic-list IValue returns the
\* elements of the list in order and leaves the backing store, the source,
\* the views and the other result as they were; and a change made to one
\* result changes neither the other result nor the backing store that the
\* source and its views show.  The moving form of the conversion returns
\* the same elements and leaves the source None; the backing store, if a view
\* still owns it, and the views and the other result are as they were.
C18_DeepCopy ==
  [][/\ llast'.op = "toVector" =>
          /\ vecs'[llast'.vec].made
          /\ vecs'[llast'.vec].elems = Strings(SrcStore)
          /\ \A r \in Vecs \ {llast'.vec} : vecs'[r] = vecs[r]
          /\ UNCHANGED <<lsrc, lstore, lrc, views>>
     /\ llast'.op = "moveToVector" =>
          /\ vecs'[llast'.vec].made
          /\ vecs'[llast'.vec].elems = Strings(SrcStore)
          /\ \A r \in Vecs \ {llast'.vec} : vecs'[r] = vecs[r]
          /\ lsrc' = NoneIValue
          /\ lrc'[lsrc.ptr] = lrc[lsrc.ptr] - 1
          /\ lrc'[lsrc.ptr] >= 1 => lstore' = lstore
          /\ UNCHANGED views
     /\ llast'.op = "vecMutate" =>
          /\ vecs'[llast'.vec] # vecs[llast'.vec]
          /\ \A r \in Vecs \ {llast'.vec} : vecs'[r] = vecs[r]
          /\ UNCHANGED <<lsrc, lstore, lrc, views>>]_vars

\* Both results were made from the same non-empty list, which a view
\* aliases, and one of them has been changed since.
C18_Witness ==
  /\ lsrc.tag = "GenericList"
  /\ \A r \in Vecs : vecs[r].made
  /\ vecs["r1"].elems # vecs["r2"].elems
  /\ vecs["r2"].elems = Strings(SrcStore) /\ Len(SrcStore) = 2
  /\ llast.op = "vecMutate"
  /\ \E k \in Views : views[k] = lsrc.ptr

\* The backing store that the view of the last view operation shows.
ViewStore == lstore[views[llast.view]]

\* C19: a typed list or dict view obtained in the borrowing form is a handle
\* to the backing store of the IValue it was obtained from: it points to the
\* same store, which stays alive, so what is pushed, set or inserted through
\* a view is what every other view shows and what the source shows for as
\* long as it holds the container (a view obtained in the moving form takes
\* the source's reference and leaves the source None); and an IValue built
\* from a vector of N elements (or a map of N entries) holds those N
\* elements, the list in the vector's order.
C19_ViewAliases ==
  /\ \A k \in Views :
       views[k] # NullPtr =>
         /\ views[k] \in Targets /\ lrc[views[k]] >= 1
         /\ lsrc.is_intrusive_ptr =>
              (views[k] = lsrc.ptr /\ lstore[views[k]] = SrcStore)
         /\ \A j \in Views : views[j] # NullPtr => views[j] = views[k]
  /\ llast.op = "view" =>
       lsrc.is_intrusive_ptr /\ views[llast.view] = lsrc.ptr
  /\ \A p \in Targets :
       lrc[p] = Cardinality({k \in Views : views[k] = p})
                  + (IF lsrc.is_intrusive_ptr /\ lsrc.ptr = p THEN 1 ELSE 0)
  /\ llast.op = "fromVector" =>
       /\ lsrc.tag = "GenericList"
       /\ Len(SrcStore) = Len(llast.arg)
       /\ \A i \in 1 .. Len(llast.arg) : SrcStore[i] = ElemIValue(llast.arg[i])
  /\ llast.op = "fromMap" =>
       /\ lsrc.tag = "GenericDict"
       /\ Len(SrcStore) = Len(llast.arg)
       /\ \A i \in 1 .. Len(llast.arg) :
            \E j \in 1 .. Len(SrcStore) :
              SrcStore[j] = DictEntry(llast.arg[i][1], llast.arg[i][2])
  /\ llast.op = "push_back" =>
       ViewStore = llast.before \o <<ElemIValue(llast.arg[1])>>
  /\ llast.op = "set" =>
       /\ Len(ViewStore) = Len(llast.before)
       /\ \A i \in 1 .. Len(ViewStore) :
            ViewStore[i] = IF i = llast.idx THEN ElemIValue(llast.arg[1])
                           ELSE llast.before[i]
  /\ llast.op = "insert" =>
       \/ ViewStore =
            llast.before \o <<DictEntry(llast.arg[1], llast.arg[2])>>
       \/ /\ ViewStore = llast.before
          /\ \E i \in 1 .. Len(ViewStore) :
               ViewStore[i].key = ElemIValue(llast.arg[1])

\* An IValue built from a vector has two views, and an element pushed
\* through one of them has made the list longer than the vector was.
C19_Witness ==
  /\ lsrc.tag = "GenericList"
  /\ \A k \in Views : views[k] = lsrc.ptr
  /\ llast.op = "push_back" /\ Len(llast.before) = 1
  /\ Len(SrcStore) = 2 /\ SrcStore[1] # SrcStore[2]

====
